---- MODULE Spec2Model ----
(***************************************************************************)
(* Model of the canvas painter of zrender (src/canvas/Painter.ts): the     *)
(* layer registry (_zlevelList, _layers), the classification of the        *)
(* display list into layers (_updateLayerStatus), the time-sliced paint    *)
(* (_paintList, _doPaintList), manual compositing and the hover overlay.   *)
(*                                                                         *)
(* Layer keys are z-levels. The source adds 0.001 and 0.01 to a z-level,   *)
(* so a key is kept here as an integer number of thousandths: key 1000 is  *)
(* z-level 1, key 1 is z-level 0.001, key 10 is z-level 0.01.              *)
(* Indices into the display list are 0-based, as in the source; list[i+1]  *)
(* is the element the source calls list[i].                                *)
(***************************************************************************)
EXTENDS Integers, Sequences, FiniteSets, TLC

\* ---------------------------------------------------------------- bounds
MaxLen == 3          \* longest display list
MaxZ == 1            \* element z-levels are 0..MaxZ
MaxRedraw == 2       \* number of refresh calls in a behaviour
MaxHover == 1        \* elements that can be hovered

\* ------------------------------------------------------ program constants
ZScale == 1000                        \* thousandths per unit of z-level
HOVER_LAYER_ZLEVEL == 100000000       \* 1e5
CANVAS_ZLEVEL == 314159000            \* 314159
EL_AFTER_INCREMENTAL_INC == 10        \* 0.01
INCREMENTAL_INC == 1                  \* 0.001

NoLayer == -1        \* null layer reference (prevLayer = null, no _hoverlayer)
Detached == -2       \* a Layer object that is no longer in the registry
NoZ == -3            \* layer.zlevel never assigned

Min(S) == CHOOSE x \in S : \A y \in S : x <= y

\* ------------------------------------------------------------ elements
\* A displayable of the display list: zlevel, incremental, notClear, __dirty.
Element == [zlevel : 0..MaxZ, incremental : BOOLEAN, notClear : BOOLEAN,
            dirty : BOOLEAN]

ElementKinds == {e \in Element : e.notClear => e.incremental}

\* storage.getDisplayList(true) returns the list sorted by zlevel (then z, z2).
DepthOrdered(l) == \A i \in 1..(Len(l) - 1) : l[i].zlevel <= l[i + 1].zlevel

\* The depth-ordered lists of n elements of the given kinds.
RECURSIVE ListsOfLen(_, _)
ListsOfLen(kinds, n) ==
    IF n = 0 THEN {<<>>}
    ELSE {m \in {Append(l, e) : l \in ListsOfLen(kinds, n - 1), e \in kinds} :
            DepthOrdered(m)}

ListsUpTo(kinds, n) == UNION {ListsOfLen(kinds, k) : k \in 0..n}

\* A displayable is dirty from its construction until it is brushed.
NewElements == {e \in ElementKinds : e.dirty}

\* The lists the storage can hold when the painter is constructed.
DisplayLists == ListsUpTo(NewElements, MaxLen)

\* -------------------------------------------------------------- layers
\* new Layer(...): the bookkeeping fields of a freshly constructed Layer.
LayerCtor ==
    [builtin |-> FALSE, hasResize |-> TRUE, hasRefresh |-> TRUE,
     virtual |-> FALSE, incremental |-> FALSE, zlevel |-> NoZ,
     startIndex |-> 0, endIndex |-> 0, drawIndex |-> 0,
     dirty |-> TRUE, used |-> FALSE, attached |-> FALSE]

\* layer.getElementCount()
getElementCount(layer) == layer.endIndex - layer.startIndex

\* A null layer argument.
NullLayer == [LayerCtor EXCEPT !.hasResize = FALSE, !.hasRefresh = FALSE,
                               !.zlevel = NoLayer]

IsNull(layer) == layer.zlevel = NoLayer

\* The capability test with "and" for "or".
isLayerValid_BothMissing(layer) ==
    IF IsNull(layer) THEN FALSE
    ELSE IF layer.builtin THEN TRUE
    ELSE IF ~layer.hasResize /\ ~layer.hasRefresh THEN FALSE
    ELSE TRUE

isLayerValid(layer) ==
    IF IsNull(layer) THEN FALSE
    ELSE IF layer.builtin THEN TRUE
    ELSE IF ~layer.hasResize \/ ~layer.hasRefresh THEN FALSE
    ELSE TRUE

\* ------------------------------------------------------------ registry
\* The painter's registry state is passed around as a record p:
\*   p.zl   _zlevelList            p.ly   _layers (key -> Layer)
\*   p.comp _needsManuallyCompositing

\* The scan without its break: i always runs to the last entry.
ScanIndex_NoBreak(zl, zlevel) ==
    IF Len(zl) > 0 /\ zlevel > zl[1] THEN Len(zl) - 1 ELSE -1

\* The scan of insertLayer: the value of i after the loop (0-based, -1 when
\* the new key goes to the head).
ScanIndex(zl, zlevel) ==
    IF Len(zl) > 0 /\ zlevel > zl[1]
    THEN LET hits == {j \in 0..(Len(zl) - 2) :
                        zl[j + 1] < zlevel /\ zl[j + 2] > zlevel}
         IN IF hits # {} THEN Min(hits) ELSE Len(zl) - 1
    ELSE -1

\* zlevelList.splice(at, 0, zlevel)
SpliceIn(zl, at, zlevel) ==
    SubSeq(zl, 1, at) \o <<zlevel>> \o SubSeq(zl, at + 1, Len(zl))

\* zlevelList.splice(at, 1), at 0-based; splice(-1, 1) removes the last entry.
SpliceOut(zl, at) ==
    LET a == IF at < 0 THEN Len(zl) + at ELSE at
    IN IF a < 0 \/ a >= Len(zl) THEN zl
       ELSE SubSeq(zl, 1, a) \o SubSeq(zl, a + 2, Len(zl))

\* util.indexOf(zlevelList, zlevel), 0-based, -1 when absent.
indexOf(zl, zlevel) ==
    IF \E j \in 1..Len(zl) : zl[j] = zlevel
    THEN Min({j \in 1..Len(zl) : zl[j] = zlevel}) - 1
    ELSE -1

\* insertLayer without the test of lines 539-542 for a key already in use.
insertLayer_NoUsedCheck(p, zlevel, layer) ==
    IF ~isLayerValid(layer) THEN p
    ELSE LET i == ScanIndex(p.zl, zlevel)
         IN [p EXCEPT !.zl = SpliceIn(p.zl, i + 1, zlevel),
                      !.ly = (zlevel :> [layer EXCEPT !.attached = ~layer.virtual])
                             @@ p.ly]

insertLayer(p, zlevel, layer) ==
    IF zlevel \in DOMAIN p.ly THEN p
    ELSE IF ~isLayerValid(layer) THEN p
    ELSE LET i == ScanIndex(p.zl, zlevel)
         IN [p EXCEPT !.zl = SpliceIn(p.zl, i + 1, zlevel),
                      !.ly = (zlevel :> [layer EXCEPT !.attached = ~layer.virtual])
                             @@ p.ly]

\* The key under which getLayer(zlevel) looks the layer up (lines 502-505).
getLayerKey(p, zlevel) ==
    IF p.single /\ ~p.comp THEN CANVAS_ZLEVEL ELSE zlevel

\* getLayer(zlevel, virtual): the registry after the call; the layer returned
\* is p.ly[getLayerKey(p, zlevel)] of the result.
getLayer(p, zlevel, virtual) ==
    LET z == getLayerKey(p, zlevel)
    IN IF z \in DOMAIN p.ly THEN p
       ELSE insertLayer(p, z, [LayerCtor EXCEPT !.zlevel = z, !.builtin = TRUE,
                                                !.virtual = virtual])

\* delLayer(zlevel) when layers[zlevel] exists and its dom has a parent node.
delLayer(p, zlevel) ==
    [p EXCEPT !.ly = [k \in (DOMAIN p.ly) \ {zlevel} |-> p.ly[k]],
              !.zl = SpliceOut(p.zl, indexOf(p.zl, zlevel)),
              !.hover = IF p.hover = zlevel THEN Detached ELSE p.hover]

\* layer.dom.parentNode.removeChild(layer.dom) throws a TypeError when the
\* dom was never inserted (parentNode is null): virtual layers, line 567.
delLayerThrows(p, zlevel) ==
    zlevel \in DOMAIN p.ly /\ ~p.ly[zlevel].attached

\* The keys of the engine-built layers in _zlevelList order (eachBuiltinLayer).
eachBuiltinLayer(p) == SelectSeq(p.zl, LAMBDA z : p.ly[z].builtin)

\* ------------------------------------------------------- classification
\* Lines 636-638: reset the flags of every engine-built layer.
ResetFlags(p) ==
    [p EXCEPT !.ly = [k \in DOMAIN p.ly |->
        IF p.ly[k].builtin THEN [p.ly[k] EXCEPT !.dirty = FALSE, !.used = FALSE]
        ELSE p.ly[k]]]

\* The flag recomputed at every classification instead of only raised.
DetectCompositing_Recomputed(p, list) ==
    [p EXCEPT !.comp = p.single /\ \E i \in 1..(Len(list) - 1) :
           list[i + 1].zlevel # list[i].zlevel \/ list[i + 1].incremental]

\* Lines 649-657: on a single canvas the walk starts at i = 1.
DetectCompositing(p, list) ==
    IF p.single /\ \E i \in 1..(Len(list) - 1) :
           list[i + 1].zlevel # list[i].zlevel \/ list[i + 1].incremental
    THEN [p EXCEPT !.comp = TRUE]
    ELSE p

\* updatePrevLayer(idx), lines 640-647.
updatePrevLayer(ly, prevLayer, idx) ==
    IF prevLayer # NoLayer
    THEN [ly EXCEPT ![prevLayer] =
            [@ EXCEPT !.dirty = @ \/ ly[prevLayer].endIndex # idx,
                      !.endIndex = idx]]
    ELSE ly

\* The key without the offset of line 675 for what follows an incremental
\* element.
WantedKey_NoAfterInc(el, incrementalLayerCount) ==
    IF el.incremental THEN el.zlevel * ZScale + INCREMENTAL_INC
    ELSE el.zlevel * ZScale

\* The key the walk asks getLayer for (lines 668-678).
WantedKey(el, incrementalLayerCount) ==
    IF el.incremental THEN el.zlevel * ZScale + INCREMENTAL_INC
    ELSE el.zlevel * ZScale
         + (IF incrementalLayerCount > 0 THEN EL_AFTER_INCREMENTAL_INC ELSE 0)

\* Line 670: an incremental element marks its layer incremental.
MarkIncremental(ly, k, el) ==
    IF el.incremental THEN [ly EXCEPT ![k] = [@ EXCEPT !.incremental = TRUE]]
    ELSE ly

\* Entering a layer without line 691: a non-incremental layer keeps the
\* __drawIndex the last paint left.
EnterLayer_KeepDrawIndex(ly, k, i, prevLayer) ==
    IF k # prevLayer
    THEN updatePrevLayer(
           [ly EXCEPT ![k] =
              [@ EXCEPT !.used = TRUE,
                        !.dirty = @ \/ ly[k].startIndex # i,
                        !.startIndex = i,
                        !.drawIndex = IF ly[k].incremental THEN -1 ELSE @]],
           prevLayer, i)
    ELSE ly

\* Lines 684-699: the walk enters a layer other than the previous one.
EnterLayer(ly, k, i, prevLayer) ==
    IF k # prevLayer
    THEN updatePrevLayer(
           [ly EXCEPT ![k] =
              [@ EXCEPT !.used = TRUE,
                        !.dirty = @ \/ ly[k].startIndex # i,
                        !.startIndex = i,
                        !.drawIndex = IF ly[k].incremental THEN -1 ELSE i]],
           prevLayer, i)
    ELSE ly

\* Marking without the test __drawIndex < 0 of line 702: every dirty element
\* of an incremental layer moves the draw index, which ends on the last one.
MarkDirty_LastDirty(ly, k, el, i) ==
    IF el.dirty
    THEN [ly EXCEPT ![k] =
            [@ EXCEPT !.dirty = TRUE,
                      !.drawIndex = IF ly[k].incremental THEN i ELSE @]]
    ELSE ly

\* Lines 700-706: a dirty element makes its layer dirty.
MarkDirty(ly, k, el, i) ==
    IF el.dirty
    THEN [ly EXCEPT ![k] =
            [@ EXCEPT !.dirty = TRUE,
                      !.drawIndex = IF ly[k].incremental /\ ly[k].drawIndex < 0
                                    THEN i ELSE @]]
    ELSE ly

\* Lines 680-706 for the element el at index i, once getLayer has returned
\* the layer of key k in the registry p1.
VisitLayer(p1, k, el, i, prevLayer, incrementalLayerCount) ==
    [p |-> [p1 EXCEPT !.ly = MarkDirty(
                                EnterLayer(MarkIncremental(p1.ly, k, el),
                                           k, i, prevLayer),
                                k, el, i)],
     prevLayer |-> k,
     incrementalLayerCount |-> IF el.incremental THEN 1
                               ELSE incrementalLayerCount]

\* One iteration of the walk (lines 663-706) for the element at index i.
WalkStep(p, list, i, prevLayer, incrementalLayerCount) ==
    VisitLayer(getLayer(p, WantedKey(list[i + 1], incrementalLayerCount), p.comp),
               getLayerKey(p, WantedKey(list[i + 1], incrementalLayerCount)),
               list[i + 1], i, prevLayer, incrementalLayerCount)

RECURSIVE Walk(_, _, _, _, _)
\* The walk goes on after the iteration that returned r.
WalkOn(r, list, i) ==
    Walk(r.p, list, i + 1, r.prevLayer, r.incrementalLayerCount)

Walk(p, list, i, prevLayer, incrementalLayerCount) ==
    IF i >= Len(list)
    THEN [p EXCEPT !.ly = updatePrevLayer(p.ly, prevLayer, i)]
    ELSE WalkOn(WalkStep(p, list, i, prevLayer, incrementalLayerCount), list, i)

\* The sweep without lines 717-720: a sentinel left on a dirty layer stays.
SweepLayer_KeepSentinel(layer) ==
    IF ~layer.used /\ getElementCount(layer) > 0
    THEN [layer EXCEPT !.dirty = TRUE, !.startIndex = 0,
                       !.endIndex = 0, !.drawIndex = 0]
    ELSE layer

\* Lines 711-721: the sweep over the engine-built layers.
SweepLayer(layer) ==
    LET l1 == IF ~layer.used /\ getElementCount(layer) > 0
              THEN [layer EXCEPT !.dirty = TRUE, !.startIndex = 0,
                                 !.endIndex = 0, !.drawIndex = 0]
              ELSE layer
    IN IF l1.dirty /\ l1.drawIndex < 0
       THEN [l1 EXCEPT !.drawIndex = l1.startIndex]
       ELSE l1

\* A sweep that also drops the engine-built layers no element claims.
Sweep_DropUnused(p) ==
    [p EXCEPT !.ly = [k \in {z \in DOMAIN p.ly : ~p.ly[z].builtin \/ p.ly[z].used} |->
                        IF p.ly[k].builtin THEN SweepLayer(p.ly[k]) ELSE p.ly[k]],
              !.zl = SelectSeq(p.zl, LAMBDA z : ~p.ly[z].builtin \/ p.ly[z].used)]

Sweep(p) ==
    [p EXCEPT !.ly = [k \in DOMAIN p.ly |->
        IF p.ly[k].builtin THEN SweepLayer(p.ly[k]) ELSE p.ly[k]]]

_updateLayerStatus(p, list) ==
    Sweep(Walk(DetectCompositing(ResetFlags(p), list), list, 0, NoLayer, 0))

\* ------------------------------------------------------------- painting
\* A paint event: t is what happened, z the key of the layer it happened to
\* (Detached for a layer object no longer registered), i the list index (or
\* the hover element) painted, -1 when there is none.
\*   "clear"/"clearBg"   layer.clear(false, clearColor) without/with colour
\*   "brush"             brush(ctx, list[i], ...) by _doPaintEl
\*   "cclear"/"blit"     _compositeManually: ctx.clearRect / ctx.drawImage
\*   "refresh"/"refreshBg"  layer.refresh(clearColor) of a custom layer
\*   "hclear"/"hbrush"   refreshHover: hoverLayer.clear() / mirror painted
\*   "raf"               requestAnimationFrame asked for a continuation
Ev(t, z, i) == [t |-> t, z |-> z, i |-> i]

\* brush(ctx, el, scope, isLast) marks the element as painted.
brush(el) == [el EXCEPT !.dirty = FALSE]

\* The layers collected from the last key to the first.
layerList_Backwards(p, paintAll) ==
    LET fwd == SelectSeq(p.zl, LAMBDA z : p.ly[z].builtin /\ z # p.hover
                                          /\ (p.ly[z].dirty \/ paintAll))
    IN [j \in 1..Len(fwd) |-> fwd[Len(fwd) + 1 - j]]

\* Lines 395-405: the layers _doPaintList paints, in _zlevelList order.
layerList(p, paintAll) ==
    SelectSeq(p.zl, LAMBDA z : p.ly[z].builtin /\ z # p.hover
                               /\ (p.ly[z].dirty \/ paintAll))

\* The clock read on a forced repaint too (line 422 without "!paintAll").
useTimer_Forced(layer, paintAll) == layer.incremental

\* Line 422: the layers of layerList whose paint loop reads the clock.
useTimer(layer, paintAll) == ~paintAll /\ layer.incremental

\* Lines 420-440: start index and whether the surface is cleared.
StartIndex(layer, paintAll) ==
    IF paintAll THEN layer.startIndex ELSE layer.drawIndex

\* The test of line 433 without "|| paintAll".
ClearsLayer_NoForce(layer, list, paintAll) ==
    LET start == StartIndex(layer, paintAll)
    IN IF layer.startIndex = layer.endIndex THEN TRUE
       ELSE IF start = layer.startIndex
            THEN LET firstEl == list[start + 1]
                 IN ~firstEl.incremental \/ ~firstEl.notClear
            ELSE FALSE

ClearsLayer(layer, list, paintAll) ==
    LET start == StartIndex(layer, paintAll)
    IN IF layer.startIndex = layer.endIndex THEN TRUE
       ELSE IF start = layer.startIndex
            THEN LET firstEl == list[start + 1]
                 IN ~firstEl.incremental \/ ~firstEl.notClear \/ paintAll
            ELSE FALSE

\* Lines 437-440: the recovery from the sentinel.
LoopStart(layer, paintAll) ==
    IF StartIndex(layer, paintAll) = -1 THEN layer.startIndex
    ELSE StartIndex(layer, paintAll)

\* Lines 441-455: the value of i when the loop is left. budget is the number
\* of brush calls after which Date.now() - startTime first exceeds 15.
LoopEnd(layer, paintAll, budget) ==
    LET start == LoopStart(layer, paintAll)
    IN IF start >= layer.endIndex THEN start
       ELSE IF useTimer(layer, paintAll) /\ budget <= layer.endIndex - start
            THEN start + budget - 1
            ELSE layer.endIndex

\* The indices the loop passes to _doPaintEl.
LoopPainted(layer, paintAll, budget) ==
    LET start == LoopStart(layer, paintAll)
        i == LoopEnd(layer, paintAll, budget)
    IN IF start >= layer.endIndex THEN {}
       ELSE IF i < layer.endIndex THEN start..i ELSE start..(layer.endIndex - 1)

RECURSIVE BrushEvents(_, _, _)
BrushEvents(z, from, to) ==
    IF from > to THEN <<>>
    ELSE <<Ev("brush", z, from)>> \o BrushEvents(z, from + 1, to)

\* One iteration of the loop over layerList (lines 409-469) for layer z.
\* st.ly the layers, st.list the display list, st.log the events so far,
\* st.finished the flag; cut[z] is the budget of a timed layer.
PaintLayer(st, z, zl, paintAll, cut) ==
    LET layer == st.ly[z]
        budget == IF useTimer(layer, paintAll) THEN cut[z] ELSE 0
        clearEv == IF ~ClearsLayer(layer, st.list, paintAll) THEN <<>>
                   ELSE IF layer.zlevel = zl[1] THEN <<Ev("clearBg", z, -1)>>
                   ELSE <<Ev("clear", z, -1)>>
        done == LoopPainted(layer, paintAll, budget)
        i == LoopEnd(layer, paintAll, budget)
        brushed == IF layer.dirty \/ paintAll THEN done ELSE {}
    IN [ly |-> [st.ly EXCEPT ![z] = [@ EXCEPT !.drawIndex = i]],
        list |-> [j \in 1..Len(st.list) |->
                    IF (j - 1) \in brushed THEN brush(st.list[j])
                    ELSE st.list[j]],
        log |-> st.log \o clearEv
                \o (IF brushed = {} THEN <<>>
                    ELSE BrushEvents(z, Min(brushed), Min(brushed) + Cardinality(brushed) - 1)),
        finished |-> st.finished /\ ~(i < layer.endIndex)]

RECURSIVE PaintLayers(_, _, _, _, _)
PaintLayers(st, todo, zl, paintAll, cut) ==
    IF todo = <<>> THEN st
    ELSE PaintLayers(PaintLayer(st, Head(todo), zl, paintAll, cut),
                     Tail(todo), zl, paintAll, cut)

\* _doPaintList(list, paintAll): layers, list, log and the finished flag.
_doPaintList(p, list, paintAll, cut) ==
    PaintLayers([ly |-> p.ly, list |-> list, log |-> <<>>, finished |-> TRUE],
                layerList(p, paintAll), p.zl, paintAll, cut)

\* Lines 386-391: the surface of ctx is cleared and every virtual
\* engine-built layer of the registry p1 is drawn onto it.
Blit(p1, ctx) ==
    [p |-> p1,
     log |-> <<Ev("cclear", ctx, -1)>>
             \o [j \in 1..Len(SelectSeq(eachBuiltinLayer(p1),
                                        LAMBDA z : p1.ly[z].virtual)) |->
                   Ev("blit", SelectSeq(eachBuiltinLayer(p1),
                                        LAMBDA z : p1.ly[z].virtual)[j], -1)]]

\* _compositeManually(): getLayer(CANVAS_ZLEVEL) may create the layer.
_compositeManually(p) ==
    Blit(getLayer(p, CANVAS_ZLEVEL, FALSE), getLayerKey(p, CANVAS_ZLEVEL))

\* Lines 373-378: the continuation asked for when the paint did not finish.
RafLog(r) == IF r.finished THEN <<>> ELSE <<Ev("raf", NoLayer, -1)>>

\* Compositing only once the pass has finished.
Composite_WhenFinished(p2, r, c) ==
    [p |-> IF p2.comp /\ r.finished THEN c.p ELSE p2,
     list |-> r.list,
     log |-> (IF p2.comp /\ r.finished THEN r.log \o c.log ELSE r.log)
             \o RafLog(r),
     ran |-> TRUE,
     again |-> ~r.finished]

\* Lines 369-378: after the paint returned r on the registry p2, composite
\* when needed (c is what compositing would do) and ask for another frame
\* (again) when the paint did not finish.
Composite(p2, r, c) ==
    [p |-> IF p2.comp THEN c.p ELSE p2,
     list |-> r.list,
     log |-> (IF p2.comp THEN r.log \o c.log ELSE r.log) \o RafLog(r),
     ran |-> TRUE,
     again |-> ~r.finished]

\* Lines 367-378: r is what _doPaintList returned on the registry p1.
AfterPaint(p1, r) ==
    Composite([p1 EXCEPT !.ly = r.ly], r,
              _compositeManually([p1 EXCEPT !.ly = r.ly]))

\* Lines 365-378: p1 is the registry after the classification.
PaintClassified(p1, list, paintAll, cut) ==
    AfterPaint(p1, _doPaintList(p1, list, paintAll, cut))

\* Lines 363-378 of _paintList: classify, paint, composite.
PaintPass(p, list, paintAll, cut) ==
    PaintClassified(_updateLayerStatus(p, list), list, paintAll, cut)

\* _paintList without the token check of lines 359-361.
_paintList_NoToken(p, list, paintAll, redrawId, current, cut) ==
    PaintPass(p, list, paintAll, cut)

\* _paintList(list, paintAll, redrawId), lines 358-379; current is
\* this._redrawId. ran is false when the token check returns early.
_paintList(p, list, paintAll, redrawId, current, cut) ==
    IF current # redrawId
    THEN [p |-> p, list |-> list, log |-> <<>>, ran |-> FALSE, again |-> FALSE]
    ELSE PaintPass(p, list, paintAll, cut)

\* The budgets a frame can meet: one per timed layer of the coming paint,
\* from "exceeded after the first brush" to "never exceeded".
IncKeys == {z * ZScale + INCREMENTAL_INC : z \in 0..MaxZ} \cup {CANVAS_ZLEVEL}

Budgets == 1..(MaxLen + 1)

\* The layers of the classified registry p1 whose loop will read the clock.
TimedLayers(p1, paintAll) ==
    {z \in IncKeys \cap DOMAIN p1.ly :
        /\ p1.ly[z].builtin /\ z # p1.hover
        /\ (p1.ly[z].dirty \/ paintAll)
        /\ useTimer(p1.ly[z], paintAll)}

\* A budget for every timed layer, none above what the layer has left.
TimedCuts(p1, paintAll, timed) ==
    {[z \in IncKeys |-> IF z \in timed THEN f[z] ELSE MaxLen + 1] :
       f \in {g \in [timed -> Budgets] :
                \A z \in timed :
                   g[z] <= p1.ly[z].endIndex - LoopStart(p1.ly[z], paintAll) + 1}}

ClassifiedCuts(p1, paintAll) == TimedCuts(p1, paintAll, TimedLayers(p1, paintAll))

CutChoices(p, list, paintAll) ==
    ClassifiedCuts(_updateLayerStatus(p, list), paintAll)

\* ---------------------------------------------------------------- hover
\* The hover state is passed around as a record h:
\*   h.els  _hoverElements, each mirror named by the element it mirrors
\*   h.mir  the elements whose __hoverMir is set
\*   h.zr   the elements whose __zr is set (still attached to the instance)
HoverIds == 1..MaxHover

RECURSIVE timsort(_)
timsort(q) ==
    IF q = <<>> THEN <<>>
    ELSE LET m == Min({q[j] : j \in 1..Len(q)})
             at == Min({j \in 1..Len(q) : q[j] = m})
         IN <<m>> \o timsort(SubSeq(q, 1, at - 1) \o SubSeq(q, at + 1, Len(q)))

\* Lines 326-349: the mirrors whose element left the instance are dropped,
\* the others are brushed onto the hover layer of the registry p1.
PaintHover(p1, h, sorted, clearLog) ==
    [p |-> p1,
     h |-> [h EXCEPT !.els = SelectSeq(sorted, LAMBDA e : e \in h.zr),
                     !.mir = h.mir \ ({sorted[j] : j \in 1..Len(sorted)} \ h.zr)],
     log |-> clearLog
             \o [j \in 1..Len(SelectSeq(sorted, LAMBDA e : e \in h.zr)) |->
                   Ev("hbrush", p1.hover,
                      SelectSeq(sorted, LAMBDA e : e \in h.zr)[j])]]

\* Lines 308-309: an existing hover layer is cleared first.
HoverClearLog(p) ==
    IF p.hover # NoLayer THEN <<Ev("hclear", p.hover, -1)>> ELSE <<>>

\* Lines 318-320: the hover layer is fetched on first use.
WithHoverLayer(p) ==
    IF p.hover = NoLayer
    THEN [getLayer(p, HOVER_LAYER_ZLEVEL, FALSE)
            EXCEPT !.hover = getLayerKey(p, HOVER_LAYER_ZLEVEL)]
    ELSE p

\* refreshHover(), lines 305-352.
refreshHover(p, h) ==
    IF Len(h.els) = 0 THEN [p |-> p, h |-> h, log |-> HoverClearLog(p)]
    ELSE PaintHover(WithHoverLayer(p), h, timsort(h.els), HoverClearLog(p))

\* Lines 247-255 of refresh: the custom layers are refreshed in key order.
CustomRefreshLog(p) ==
    LET custom == {j \in 1..Len(p.zl) :
                     ~p.ly[p.zl[j]].builtin /\ p.ly[p.zl[j]].hasRefresh}
        F[j \in 0..Len(p.zl)] ==
            IF j = 0 THEN <<>>
            ELSE IF j \in custom
                 THEN Append(F[j - 1], Ev(IF j = 1 THEN "refreshBg" ELSE "refresh",
                                          p.zl[j], -1))
                 ELSE F[j - 1]
    IN F[Len(p.zl)]

\* ---------------------------------------------------------------- state
VARIABLES
    singleCanvas,                \* _singleCanvas
    zlevelList,                  \* _zlevelList
    layers,                      \* _layers
    needsManuallyCompositing,    \* _needsManuallyCompositing
    hoverlayer,                  \* _hoverlayer: NoLayer, a key, or Detached
    hoverElements,               \* _hoverElements
    hoverMir,                    \* elements with __hoverMir set
    zrEls,                       \* hoverable elements with __zr set
    redrawId,                    \* _redrawId
    pending,                     \* frame callbacks requested and not yet run
    list,                        \* the display list of the storage
    budget,                      \* the host: 0, or the number of brush calls
                                 \* a timed layer gets per frame
    log,                         \* paint events of the last call
    painted,                     \* <<key, index>> brushed since the last clear
                                 \* of the layer, in the current pass
    pass,                        \* the current pass: frames run, first and
                                 \* highest index brushed, brushes so far in
                                 \* list order
    lastOp                       \* the last call and its outcome

vars == <<singleCanvas, zlevelList, layers, needsManuallyCompositing,
          hoverlayer, hoverElements, hoverMir, zrEls, redrawId, pending,
          list, budget, log, painted, pass, lastOp>>

P == [single |-> singleCanvas, zl |-> zlevelList, ly |-> layers,
      comp |-> needsManuallyCompositing, hover |-> hoverlayer]

H == [els |-> hoverElements, mir |-> hoverMir, zr |-> zrEls]

SetP(p) ==
    /\ zlevelList' = p.zl
    /\ layers' = p.ly
    /\ needsManuallyCompositing' = p.comp
    /\ hoverlayer' = p.hover
    /\ UNCHANGED <<singleCanvas, budget>>

SetH(h) ==
    /\ hoverElements' = h.els
    /\ hoverMir' = h.mir
    /\ zrEls' = h.zr

\* The last call: its name, its key or element argument, its layer
\* argument, paintAll, whether it did its work (ran), whether it threw, and
\* for refresh whether the storage handed over the list unchanged (same);
\* before is _hoverElements as the call found it, and undo tells a
\* removeHover(el) that directly follows an addHover(el) which returned a
\* mirror.
OpWith(op, z, arg, paintAll, ran, threw, same) ==
    [op |-> op, z |-> z, arg |-> arg, paintAll |-> paintAll, ran |-> ran,
     threw |-> threw, same |-> same, before |-> hoverElements,
     undo |-> (op = "removeHover" /\ lastOp.op = "addHover" /\ lastOp.z = z
                                  /\ lastOp.ran)]

Op(op, z, paintAll, ran, threw, same) ==
    OpWith(op, z, NullLayer, paintAll, ran, threw, same)

\* The surfaces after the events of a call: a clear empties the layer's
\* surface, a brush adds the element to it.
RECURSIVE ApplyLog(_, _)
ApplyLog(pt, evs) ==
    IF evs = <<>> THEN pt
    ELSE LET e == Head(evs)
             pt1 == IF e.t \in {"clear", "clearBg", "hclear", "cclear"}
                    THEN {x \in pt : x[1] # e.z}
                    ELSE IF e.t = "brush" THEN pt \cup {<<e.z, e.i>>}
                    ELSE pt
         IN ApplyLog(pt1, Tail(evs))

\* An element is brushed onto a surface that already shows it.
RECURSIVE Repaints(_, _)
Repaints(pt, evs) ==
    IF evs = <<>> THEN FALSE
    ELSE LET e == Head(evs)
         IN \/ e.t = "brush" /\ <<e.z, e.i>> \in pt
            \/ Repaints(ApplyLog(pt, <<e>>), Tail(evs))

\* The list indices brushed by a call, in the order of the calls.
BrushIndices(evs) ==
    LET b == SelectSeq(evs, LAMBDA e : e.t = "brush")
    IN [j \in 1..Len(b) |-> b[j].i]

Ascending(q) == \A j \in 1..(Len(q) - 1) : q[j] <= q[j + 1]

FrameCap == MaxLen + 2

NewPass == [frames |-> 0, first |-> -1, top |-> -1, ordered |-> TRUE]

\* The pass after one more frame with the events evs.
NextPass(ps, evs) ==
    LET b == BrushIndices(evs)
    IN [frames |-> IF ps.frames < FrameCap THEN ps.frames + 1 ELSE FrameCap,
        first |-> IF ps.first = -1 /\ b # <<>> THEN b[1] ELSE ps.first,
        top |-> IF b = <<>> THEN ps.top
                ELSE LET m == CHOOSE x \in {b[j] : j \in 1..Len(b)} :
                                 \A j \in 1..Len(b) : b[j] <= x
                     IN IF m > ps.top THEN m ELSE ps.top,
        ordered |-> ps.ordered /\ Ascending(<<ps.top>> \o b)]

\* The constructor, lines 115-205.
mainLayer == [LayerCtor EXCEPT !.builtin = TRUE, !.zlevel = CANVAS_ZLEVEL,
                               !.attached = TRUE]

NoLayers == [k \in {} |-> LayerCtor]

InitPainter ==
    /\ singleCanvas \in BOOLEAN
    /\ zlevelList = IF singleCanvas THEN <<CANVAS_ZLEVEL>> ELSE <<>>
    /\ layers = IF singleCanvas THEN (CANVAS_ZLEVEL :> mainLayer) ELSE NoLayers
    /\ needsManuallyCompositing = FALSE
    /\ hoverlayer = NoLayer
    /\ hoverElements = <<>>
    /\ hoverMir = {}
    /\ zrEls = HoverIds
    /\ redrawId = 0
    /\ pending = <<>>
    /\ log = <<>>
    /\ painted = {}
    /\ pass = NewPass
    /\ lastOp = Op("new", NoLayer, FALSE, FALSE, FALSE, FALSE)

\* ------------------------------------------------------ storage mutation
\* What the storage can hand to the next refresh: the same list, or the list
\* with one element removed, one element marked dirty, or one element added.
RemoveAt(l, j) == SubSeq(l, 1, j - 1) \o SubSeq(l, j + 1, Len(l))

Mutations(l) ==
    {l}
    \cup {RemoveAt(l, j) : j \in 1..Len(l)}
    \cup {[l EXCEPT ![j].dirty = TRUE] : j \in 1..Len(l)}
    \cup {m \in {SubSeq(l, 1, j) \o <<e>> \o SubSeq(l, j + 1, Len(l)) :
                   j \in 0..Len(l), e \in NewElements} :
            Len(m) <= MaxLen /\ DepthOrdered(m)}

\* The budgets the host allows: any, or the fixed one.
Cuts(p, l, paintAll) ==
    IF budget = 0 THEN CutChoices(p, l, paintAll)
    ELSE {[z \in IncKeys |-> budget]}

\* -------------------------------------------------------------- actions
\* The body of refresh(paintAll), lines 237-260, called as op (by the host
\* or from resize). The token is a fresh number.
RefreshAs(op, paintAll, newList, cut) ==
    /\ redrawId < MaxRedraw
    /\ redrawId' = redrawId + 1
    /\ \E r \in {_paintList(P, newList, paintAll, redrawId + 1, redrawId + 1, cut)} :
       \E hr \in {refreshHover(r.p, H)} :
       \E evs \in {r.log \o CustomRefreshLog(r.p) \o hr.log} :
          /\ SetP(hr.p)
          /\ SetH(hr.h)
          /\ list' = r.list
          /\ pending' = IF r.again
                        THEN Append(pending, [id |-> redrawId + 1,
                                              paintAll |-> paintAll])
                        ELSE pending
          /\ log' = evs
          /\ painted' = ApplyLog({}, evs)
          /\ pass' = NextPass(NewPass, r.log)
    /\ lastOp' = Op(op, NoLayer, paintAll, TRUE, FALSE, newList = list)

\* refresh(paintAll) called by the host.
Refresh(paintAll, newList, cut) == RefreshAs("refresh", paintAll, newList, cut)

\* The frame callback of line 375 runs: _paintList(list, paintAll, redrawId)
\* with the token captured when it was requested.
Frame(cut) ==
    /\ pending # <<>>
    /\ \E cb \in {Head(pending)} :
       \E r \in {_paintList(P, list, cb.paintAll, cb.id, redrawId, cut)} :
          /\ SetP(r.p)
          /\ list' = r.list
          /\ pending' = IF r.again THEN Append(Tail(pending), cb)
                        ELSE Tail(pending)
          /\ log' = r.log
          /\ painted' = ApplyLog(painted, r.log)
          /\ pass' = IF r.ran THEN NextPass(pass, r.log) ELSE pass
          /\ lastOp' = Op("frame", NoLayer, cb.paintAll, r.ran, FALSE, TRUE)
    /\ UNCHANGED <<hoverElements, hoverMir, zrEls, redrawId>>

\* refresh after the storage changed the list into one of newLists.
RefreshOver(paintAlls, newLists) ==
    \E paintAll \in paintAlls, newList \in newLists :
        \E cut \in Cuts(P, newList, paintAll) :
            Refresh(paintAll, newList, cut)

RefreshStep == RefreshOver(BOOLEAN, Mutations(list))

FrameStep ==
    /\ pending # <<>>
    /\ \E cut \in Cuts(P, list, Head(pending).paintAll) : Frame(cut)

Init ==
    /\ InitPainter
    /\ budget = 0
    /\ list \in DisplayLists

Next == RefreshStep \/ FrameStep

Spec == Init /\ [][Next]_vars

\* ------------------------------------------- direct calls of the host
\* The key the host passes to getLayer, insertLayer and delLayer: z-level
\* 0.005, which lies between the keys the elements of z-level 0 use and
\* those of z-level 1, below CANVAS_ZLEVEL and HOVER_LAYER_ZLEVEL.
UserKeys == {5}

\* The layer objects the host passes to insertLayer.
LayerArgs ==
    {NullLayer,
     LayerCtor,
     [LayerCtor EXCEPT !.hasResize = FALSE],
     [LayerCtor EXCEPT !.hasRefresh = FALSE],
     [LayerCtor EXCEPT !.virtual = TRUE],
     [LayerCtor EXCEPT !.builtin = TRUE, !.hasRefresh = FALSE]}

CallGetLayer(zlevel, virtual) ==
    /\ SetP(getLayer(P, zlevel, virtual))
    /\ log' = <<>>
    /\ lastOp' = Op("getLayer", zlevel, FALSE, FALSE, FALSE, FALSE)
    /\ UNCHANGED <<hoverElements, hoverMir, zrEls, redrawId, pending, list,
                   painted, pass>>

CallInsertLayer(zlevel, layer) ==
    /\ SetP(insertLayer(P, zlevel, layer))
    /\ log' = <<>>
    /\ lastOp' = OpWith("insertLayer", zlevel, layer, FALSE, FALSE, FALSE, FALSE)
    /\ UNCHANGED <<hoverElements, hoverMir, zrEls, redrawId, pending, list,
                   painted, pass>>

\* delLayer(zlevel), lines 767-778.
CallDelLayer(zlevel) ==
    /\ IF zlevel \notin DOMAIN layers
       THEN /\ SetP(P) /\ painted' = painted
            /\ lastOp' = Op("delLayer", zlevel, FALSE, FALSE, FALSE, FALSE)
       ELSE IF delLayerThrows(P, zlevel)
       THEN /\ SetP(P) /\ painted' = painted
            /\ lastOp' = Op("delLayer", zlevel, FALSE, FALSE, TRUE, FALSE)
       ELSE /\ SetP(delLayer(P, zlevel))
            /\ painted' = {x \in painted : x[1] # zlevel}
            /\ lastOp' = Op("delLayer", zlevel, FALSE, TRUE, FALSE, FALSE)
    /\ log' = <<>>
    /\ UNCHANGED <<hoverElements, hoverMir, zrEls, redrawId, pending, list, pass>>

\* resize(width, height), lines 783-831. Without a style on the root (node
\* or worker, a single canvas) the main layer is fetched and resized; with
\* one, a changed size resizes every layer and calls refresh(true), an
\* unchanged size does nothing.
ResizeNode ==
    /\ singleCanvas
    /\ SetP(getLayer(P, CANVAS_ZLEVEL, FALSE))
    /\ log' = <<>>
    /\ lastOp' = Op("resize", NoLayer, FALSE, FALSE, FALSE, FALSE)
    /\ UNCHANGED <<hoverElements, hoverMir, zrEls, redrawId, pending, list,
                   painted, pass>>

ResizeSame ==
    /\ SetP(P)
    /\ log' = <<>>
    /\ lastOp' = Op("resize", NoLayer, FALSE, FALSE, FALSE, FALSE)
    /\ UNCHANGED <<hoverElements, hoverMir, zrEls, redrawId, pending, list,
                   painted, pass>>

ResizeChanged(newLists) ==
    \E newList \in newLists :
        \E cut \in Cuts(P, newList, TRUE) :
            RefreshAs("resize", TRUE, newList, cut)

\* addHover without the test of el.__hoverMir: a mirror is always pushed.
addHover_NoCheck(h, el) ==
    [h EXCEPT !.els = Append(h.els, el), !.mir = h.mir \cup {el}]

\* addHover(el), lines 265-282: the hover state after the call.
addHover(h, el) ==
    IF el \in h.mir THEN h
    ELSE [h EXCEPT !.els = Append(h.els, el), !.mir = h.mir \cup {el}]

\* removeHover(el), lines 284-292: the hover state after the call.
removeHover(h, el) ==
    [h EXCEPT !.els = IF el \in h.mir
                      THEN SpliceOut(h.els, indexOf(h.els, el))
                      ELSE h.els,
              !.mir = h.mir \ {el}]

\* addHover(el) returns the mirror (ran) unless el has one already.
AddHover(el) ==
    /\ hoverElements' = addHover(H, el).els
    /\ hoverMir' = addHover(H, el).mir
    /\ lastOp' = Op("addHover", el, FALSE, el \notin hoverMir, FALSE, FALSE)
    /\ log' = <<>>
    /\ UNCHANGED <<singleCanvas, zlevelList, layers, needsManuallyCompositing,
                   hoverlayer, zrEls, redrawId, pending, list, budget, painted,
                   pass>>

RemoveHover(el) ==
    /\ hoverElements' = removeHover(H, el).els
    /\ hoverMir' = removeHover(H, el).mir
    /\ lastOp' = Op("removeHover", el, FALSE, FALSE, FALSE, FALSE)
    /\ log' = <<>>
    /\ UNCHANGED <<singleCanvas, zlevelList, layers, needsManuallyCompositing,
                   hoverlayer, zrEls, redrawId, pending, list, budget, painted,
                   pass>>

\* clearHover(), lines 294-303.
ClearHover ==
    /\ hoverElements' = <<>>
    /\ hoverMir' = hoverMir \ {hoverElements[j] : j \in 1..Len(hoverElements)}
    /\ lastOp' = Op("clearHover", NoLayer, FALSE, FALSE, FALSE, FALSE)
    /\ log' = <<>>
    /\ UNCHANGED <<singleCanvas, zlevelList, layers, needsManuallyCompositing,
                   hoverlayer, zrEls, redrawId, pending, list, budget, painted,
                   pass>>

\* The host removes a hovered element from the instance (__zr is unset).
DetachEl(el) ==
    /\ el \in zrEls
    /\ zrEls' = zrEls \ {el}
    /\ lastOp' = Op("detach", el, FALSE, FALSE, FALSE, FALSE)
    /\ log' = <<>>
    /\ UNCHANGED <<singleCanvas, zlevelList, layers, needsManuallyCompositing,
                   hoverlayer, hoverElements, hoverMir, redrawId, pending, list,
                   budget, painted, pass>>

\* ------------------------------------------------------ specifications
\* Spec: refresh and frame callbacks over every depth-ordered list.
\* (Init, Next and Spec are defined above.)

\* SpecSlice: lists the classifier is written for, one z-level with at most
\* one run of incremental elements, on a host whose clock lets a timed layer
\* brush a fixed number of elements per frame.
OneRun(l) ==
    ~\E a, b, c \in 1..Len(l) :
        a < b /\ b < c /\ l[a].incremental /\ ~l[b].incremental /\ l[c].incremental

SliceList(l) == OneRun(l) /\ \A j \in 1..Len(l) : l[j].zlevel = 0

RefreshStepS == RefreshOver(BOOLEAN, {m \in Mutations(list) : SliceList(m)})

InitSlice ==
    /\ InitPainter
    /\ budget \in 1..(MaxLen - 1)
    /\ list \in {l \in ListsUpTo({e \in NewElements : e.zlevel = 0}, MaxLen) :
                    SliceList(l)}

NextSlice == RefreshStepS \/ FrameStep

SpecSlice == InitSlice /\ [][NextSlice]_vars

\* SpecWalk: SpecSlice on the host whose clock stops every timed loop after
\* its first brush.
InitWalk == InitSlice /\ budget = 1

SpecWalk == InitWalk /\ [][NextSlice]_vars

\* SpecLayers: the host also calls getLayer, insertLayer and delLayer. The
\* lists are short and hold freshly added non-incremental elements, so no
\* paint is cut short and no frame callback is ever requested.
MaxLayersLen == 1

LayersLists ==
    ListsUpTo({e \in NewElements : ~e.incremental}, MaxLayersLen)

\* Between two refreshes the storage may have replaced the whole list.
RefreshStepL == RefreshOver(BOOLEAN, LayersLists)

InitLayers ==
    /\ InitPainter
    /\ budget = 0
    /\ list \in LayersLists

NextLayers ==
    \/ RefreshStepL
    \/ \E z \in UserKeys, virtual \in BOOLEAN : CallGetLayer(z, virtual)
    \/ \E z \in UserKeys, layer \in LayerArgs : CallInsertLayer(z, layer)
    \/ \E z \in UserKeys : CallDelLayer(z)

SpecLayers == InitLayers /\ [][NextLayers]_vars

\* SpecHover: the host also hovers elements.
MaxRegLen == 2

RegList(l) == Len(l) <= MaxRegLen /\ \A j \in 1..Len(l) : ~l[j].notClear

RefreshStepH == RefreshOver(BOOLEAN, {m \in Mutations(list) : RegList(m)})

InitHover ==
    /\ InitPainter
    /\ budget = 0
    /\ list \in ListsUpTo({e \in NewElements : ~e.notClear}, MaxRegLen)

NextHover ==
    \/ RefreshStepH
    \/ FrameStep
    \/ \E el \in HoverIds : AddHover(el)
    \/ \E el \in HoverIds : RemoveHover(el)
    \/ ClearHover
    \/ \E el \in HoverIds : DetachEl(el)

SpecHover == InitHover /\ [][NextHover]_vars

\* SpecOverlay: the hover calls of the host between refreshes of short
\* lists of non-incremental elements.
NextOverlay ==
    \/ RefreshStepL
    \/ \E el \in HoverIds : AddHover(el)
    \/ \E el \in HoverIds : RemoveHover(el)
    \/ ClearHover
    \/ \E el \in HoverIds : DetachEl(el)

SpecOverlay == InitLayers /\ [][NextOverlay]_vars

\* SpecComp: a painter on a single canvas whose clock lets a timed layer
\* brush one element per frame; refreshes and frames of short lists, with
\* the host inserting and deleting a layer and resizing in between.
RegLists(l) == {m \in Mutations(l) : RegList(m)}

InitComp ==
    /\ InitPainter
    /\ singleCanvas
    /\ budget = 1
    /\ list \in ListsUpTo({e \in NewElements : ~e.notClear}, MaxRegLen)

NextComp ==
    \/ RefreshStepH
    \/ FrameStep
    \/ \E z \in UserKeys : CallInsertLayer(z, LayerCtor)
    \/ \E z \in UserKeys : CallDelLayer(z)
    \/ ResizeNode
    \/ ResizeSame
    \/ ResizeChanged(RegLists(list))

SpecComp == InitComp /\ [][NextComp]_vars

\* ------------------------------------------------------------- helpers
Builtin == {z \in DOMAIN layers : layers[z].builtin}

InRange(z, i) == layers[z].startIndex <= i /\ i < layers[z].endIndex

\* The last call ran a classification.
Classified == lastOp.op \in {"refresh", "frame", "resize"} /\ lastOp.ran

\* The pass of the latest refresh is over: no live callback is pending.
PassDone ==
    /\ Classified
    /\ \A j \in 1..Len(pending) : pending[j].id # redrawId

\* C1: after classification the [__startIndex, __endIndex) ranges of the
\* engine-built layers, in ascending key order, partition [0, list.length).
C1_Partition ==
    Classified =>
        /\ \A i \in 0..(Len(list) - 1) :
              Cardinality({z \in Builtin : InRange(z, i)}) = 1
        /\ \A z \in Builtin :
              \/ layers[z].startIndex = layers[z].endIndex
              \/ /\ 0 <= layers[z].startIndex
                 /\ layers[z].startIndex < layers[z].endIndex
                 /\ layers[z].endIndex <= Len(list)
        /\ \A a, b \in Builtin :
              (a < b /\ getElementCount(layers[a]) > 0
                     /\ getElementCount(layers[b]) > 0)
                 => layers[a].endIndex <= layers[b].startIndex

\* The events of _doPaintList in a log.
PaintEvents(evs) == SelectSeq(evs, LAMBDA e : e.t \in {"clear", "clearBg", "brush"})

IsStale == pending # <<>> /\ Head(pending).id < redrawId

\* C3: a frame callback requested before the latest refresh performs no
\* classification, no clear and no paint, and requests no further callback.
C3_StaleFrameIsNoOp ==
    [][(lastOp'.op = "frame" /\ IsStale)
          => /\ layers' = layers
             /\ zlevelList' = zlevelList
             /\ needsManuallyCompositing' = needsManuallyCompositing
             /\ list' = list
             /\ log' = <<>>
             /\ painted' = painted
             /\ pending' = Tail(pending)]_vars

C3_Witness ==
    /\ lastOp.op = "frame" /\ ~lastOp.ran
    /\ \E z \in Builtin : layers[z].drawIndex < layers[z].endIndex

\* C5: a second refresh(false) right after a refresh(false) whose pass is
\* over, with the same display list, leaves no engine-built layer dirty,
\* clears nothing and brushes nothing.
C5_SecondRefreshIdle ==
    [][(/\ lastOp.op = "refresh" /\ ~lastOp.paintAll /\ PassDone
        /\ lastOp'.op = "refresh" /\ ~lastOp'.paintAll /\ lastOp'.same)
          => /\ \A z \in DOMAIN layers' :
                   layers'[z].builtin => ~layers'[z].dirty
             /\ PaintEvents(log') = <<>>]_vars

\* C6: within a pass no element is brushed onto a layer that already shows
\* it, unless the layer was cleared in between.
C6_NoRepaintWithoutClear ==
    [][/\ (lastOp'.op = "frame" /\ lastOp'.ran) => ~Repaints(painted, log')
       /\ lastOp'.op = "refresh" => ~Repaints({}, log')]_vars

\* C7: when a pass is over, its brush calls were made in ascending list order.
C7_PassInListOrder == PassDone => pass.ordered

\* C7 as amended: in one frame the layers are painted in ascending key order
\* and the elements of each layer in ascending list order.
C7_FrameInLayerOrder ==
    LET pe == PaintEvents(log)
    IN \A j, k \in 1..Len(pe) :
          j < k => /\ pe[j].z <= pe[k].z
                   /\ pe[j].z = pe[k].z => pe[k].t = "brush"
                   /\ (pe[j].z = pe[k].z /\ pe[j].t = "brush") => pe[j].i < pe[k].i

C7_Witness ==
    /\ Classified
    /\ \E j, k \in 1..Len(log) :
          /\ log[j].t = "brush" /\ log[k].t = "brush"
          /\ log[j].z < log[k].z
    /\ \E j, k \in 1..Len(log) :
          /\ log[j].t = "brush" /\ log[k].t = "brush"
          /\ log[j].z = log[k].z /\ j < k

\* C8: a layer that held elements after the previous classification and is
\* claimed by no element now is dirty with an empty range, and the paint
\* that follows clears it and brushes nothing onto it: either _doPaintList
\* clears it and brushes no list element onto it, or the call clears it
\* somewhere and brushes nothing at all onto it.
C8_UnusedLayerCleared ==
    [][(lastOp'.op \in {"refresh", "frame"} /\ lastOp'.ran)
          => \A z \in (DOMAIN layers) \cap (DOMAIN layers') :
                (/\ layers[z].builtin /\ layers[z].used
                 /\ getElementCount(layers[z]) > 0
                 /\ ~layers'[z].used)
                   => /\ layers'[z].dirty
                      /\ layers'[z].startIndex = layers'[z].endIndex
                      /\ \/ /\ \E j \in 1..Len(log') :
                                  log'[j].z = z /\ log'[j].t \in {"clear", "clearBg"}
                            /\ \A j \in 1..Len(log') :
                                  log'[j].z = z => log'[j].t # "brush"
                         \/ /\ \E j \in 1..Len(log') :
                                  /\ log'[j].z = z
                                  /\ log'[j].t \in {"clear", "clearBg", "hclear"}
                            /\ \A j \in 1..Len(log') :
                                  log'[j].z = z => log'[j].t \notin {"brush", "hbrush"}]_vars

\* C2: _zlevelList is strictly ascending, and insertLayer puts a new key
\* directly after the greatest smaller key, or at the head when there is none.
Sorted(zl) == \A j \in 1..(Len(zl) - 1) : zl[j] < zl[j + 1]

Below(zl, z) == {j \in 1..Len(zl) : zl[j] < z}

C2_SortedList ==
    /\ []Sorted(zlevelList)
    /\ [][(lastOp'.op = "insertLayer" /\ zlevelList' # zlevelList)
            => LET z == lastOp'.z
                   at == Cardinality(Below(zlevelList, z))
               IN /\ Below(zlevelList, z) = 1..at
                  /\ zlevelList' = SpliceIn(zlevelList, at, z)]_vars

C2_Witness ==
    /\ lastOp.op = "insertLayer"
    /\ \E j \in 2..(Len(zlevelList) - 1) : zlevelList[j] = lastOp.z

\* C9: insertLayer changes nothing and raises nothing when the key is taken
\* or when the layer is not engine-built and lacks resize or refresh.
Rejected(z, arg) ==
    \/ z \in DOMAIN layers
    \/ ~IsNull(arg) /\ ~arg.builtin /\ (~arg.hasResize \/ ~arg.hasRefresh)

C9_InsertRejected ==
    [][(lastOp'.op = "insertLayer" /\ Rejected(lastOp'.z, lastOp'.arg))
          => /\ layers' = layers
             /\ zlevelList' = zlevelList
             /\ ~lastOp'.threw]_vars

C9_Witness ==
    /\ lastOp.op = "insertLayer"
    /\ ~IsNull(lastOp.arg) /\ ~lastOp.arg.builtin /\ ~lastOp.arg.hasResize
    /\ lastOp.z \notin DOMAIN layers

\* C10: delLayer removes a registered key, attached or virtual, from _layers
\* and _zlevelList and leaves the other entries alone; an absent key changes
\* nothing.
C10_DelLayerRemoves ==
    [][lastOp'.op = "delLayer"
          => LET z == lastOp'.z
             IN IF z \in DOMAIN layers
                THEN /\ DOMAIN layers' = (DOMAIN layers) \ {z}
                     /\ \A k \in DOMAIN layers' : layers'[k] = layers[k]
                     /\ zlevelList' = SelectSeq(zlevelList, LAMBDA k : k # z)
                ELSE layers' = layers /\ zlevelList' = zlevelList]_vars

\* C4: a refresh(false) that repaints N elements of one incremental layer
\* from its first element, under a budget of k < N brushes per frame, has
\* brushed every element once ceil(N / k) frames have run, and when it is over.
OneIncrementalLayer ==
    /\ Len(list) > 0
    /\ \A j \in 1..Len(list) : list[j].incremental
    /\ \A j \in 1..Len(list) : list[j].zlevel = list[1].zlevel

CeilDiv(n, k) == (n + k - 1) \div k

AllPainted == \A i \in 0..(Len(list) - 1) : \E z \in Builtin : <<z, i>> \in painted

C4_SlicedRepaintCompletes ==
    (/\ Classified /\ ~lastOp.paintAll
     /\ OneIncrementalLayer /\ budget > 0 /\ budget < Len(list)
     /\ pass.first = 0
     /\ (PassDone \/ pass.frames >= CeilDiv(Len(list), budget)))
       => AllPainted

\* ------------------------------------------------------ hover overlay
\* The elements mirrored in an overlay, and the mirrors of el in it.
Mirrored(q) == {q[j] : j \in 1..Len(q)}

MirrorsOf(q, el) == Cardinality({j \in 1..Len(q) : q[j] = el})

C12_CompositingOneWay ==
    [][needsManuallyCompositing => needsManuallyCompositing']_vars

\* The list gives the classification no reason to set the flag.
PlainList(l) ==
    \A j \in 2..Len(l) : l[j].zlevel = l[j - 1].zlevel /\ ~l[j].incremental

C12_Witness ==
    /\ needsManuallyCompositing
    /\ Classified
    /\ PlainList(list)

\* C15: on a single canvas the classification raises the flag when two
\* adjacent elements differ in zlevel or when any element of the list, the
\* first one included, is incremental.
C15_FlagRaised ==
    (/\ Classified /\ singleCanvas
     /\ \/ \E j \in 2..Len(list) : list[j].zlevel # list[j - 1].zlevel
        \/ \E j \in 1..Len(list) : list[j].incremental)
       => needsManuallyCompositing

\* ------------------------------------------------------ layer indices
DrawIndexInRange(layer) ==
    layer.startIndex <= layer.drawIndex /\ layer.drawIndex <= layer.endIndex

\* The engine-built layers of the registry p have their draw index in range.
AllInRange(p) ==
    \A z \in DOMAIN p.ly : p.ly[z].builtin => DrawIndexInRange(p.ly[z])

\* Those that are dirty have; a clean one may instead hold the sentinel -1
\* of an incremental layer.
DirtyInRange(p) ==
    \A z \in DOMAIN p.ly :
        p.ly[z].builtin =>
            \/ DrawIndexInRange(p.ly[z])
            \/ ~p.ly[z].dirty /\ p.ly[z].incremental /\ p.ly[z].drawIndex = -1

\* C13: after a classification and after a paint pass every engine-built
\* layer has __startIndex <= __drawIndex <= __endIndex.
C13_DrawIndexInRange ==
    Classified =>
        /\ AllInRange(P)
        /\ \A m \in Mutations(list) : AllInRange(_updateLayerStatus(P, m))

\* C13 as amended: after a classification and after a paint pass every
\* engine-built layer that is dirty has __startIndex <= __drawIndex <=
\* __endIndex; a clean layer has too, unless it is incremental and holds
\* the sentinel -1.
C13_DirtyDrawIndexInRange ==
    Classified =>
        /\ DirtyInRange(P)
        /\ \A m \in Mutations(list) : DirtyInRange(_updateLayerStatus(P, m))

C13_Witness ==
    /\ Classified
    /\ \E z \in Builtin :
          /\ layers[z].dirty /\ layers[z].incremental
          /\ layers[z].startIndex < layers[z].drawIndex
          /\ layers[z].drawIndex < layers[z].endIndex

\* ---------------------------------------------------- layer lifetime
\* The fields of a Layer object that no call of the painter changes.
SameLayer(a, b) ==
    /\ a.zlevel = b.zlevel /\ a.builtin = b.builtin /\ a.virtual = b.virtual
    /\ a.attached = b.attached /\ a.hasResize = b.hasResize
    /\ a.hasRefresh = b.hasRefresh

InList(zl, z) == \E j \in 1..Len(zl) : zl[j] = z

\* C14: a refresh or a frame callback keeps every registered key in
\* _zlevelList, mapped to the same Layer, and only delLayer removes a key.
C14_LayersKept ==
    [][/\ lastOp'.op \in {"refresh", "frame", "resize"}
            => \A z \in DOMAIN layers :
                  /\ z \in DOMAIN layers'
                  /\ InList(zlevelList', z)
                  /\ SameLayer(layers'[z], layers[z])
       /\ (\E z \in DOMAIN layers : z \notin DOMAIN layers' \/ ~InList(zlevelList', z))
            => lastOp'.op = "delLayer"]_vars

C14_Witness ==
    /\ Classified
    /\ \E z \in Builtin :
          /\ InList(zlevelList, z)
          /\ ~layers[z].used
          /\ layers[z].dirty /\ layers[z].startIndex = layers[z].endIndex
          /\ \A j \in 1..Len(list) :
                z \notin {getLayerKey(P, list[j].zlevel * ZScale + d) :
                             d \in {0, INCREMENTAL_INC, EL_AFTER_INCREMENTAL_INC}}

\* ------------------------------------------------------- dirty layers
\* The layer of key z before a classification; a layer the classification
\* creates starts from the fields of the constructor.
LayerBefore(p, z) == IF z \in DOMAIN p.ly THEN p.ly[z] ELSE LayerCtor

\* The four reasons for the layer of key z to be dirty after the registry p
\* was classified into q for the list m.
DirtyReason(p, q, m, z) ==
    \/ q.ly[z].startIndex # LayerBefore(p, z).startIndex
    \/ q.ly[z].endIndex # LayerBefore(p, z).endIndex
    \/ \E i \in 0..(Len(m) - 1) :
          /\ q.ly[z].startIndex <= i /\ i < q.ly[z].endIndex
          /\ m[i + 1].dirty
    \/ getElementCount(LayerBefore(p, z)) > 0 /\ ~q.ly[z].used

DirtyIffReason(p, q, m) ==
    \A z \in DOMAIN q.ly :
        q.ly[z].builtin => (q.ly[z].dirty <=> DirtyReason(p, q, m, z))

\* C16: after a classification an engine-built layer is dirty exactly when
\* its start index or its end index changed, an element of its range is
\* dirty, or it held elements before and is claimed by none now.
C16_DirtyIff ==
    \A m \in Mutations(list) : DirtyIffReason(P, _updateLayerStatus(P, m), m)

\* ------------------------------------------------------- time slicing
\* The last call brushed the element of index i onto the layer of key z.
Brushed(z, i) == \E j \in 1..Len(log) : log[j] = Ev("brush", z, i)

\* The layers whose timed loop ran in the last call.
TimedPainted ==
    {z \in Builtin : /\ Classified /\ ~lastOp.paintAll
                     /\ layers[z].dirty /\ layers[z].incremental
                     /\ z # hoverlayer}

\* C17: a timed loop that stops on the clock leaves __drawIndex at the first
\* index it did not brush, and a run whose last element was brushed is not
\* left unfinished.
C17_DrawIndexFirstUnpainted ==
    \A z \in TimedPainted :
        /\ layers[z].drawIndex < layers[z].endIndex
              => ~Brushed(z, layers[z].drawIndex)
        /\ Brushed(z, layers[z].endIndex - 1)
              => layers[z].drawIndex = layers[z].endIndex

\* ------------------------------------------------------------ clearing
\* The layers _doPaintList painted in the last call.
Scheduled ==
    {z \in Builtin : /\ Classified /\ z # hoverlayer
                     /\ (layers[z].dirty \/ lastOp.paintAll)}

\* The positions in the log of the clears and of the brushes of layer z.
ClearsOf(z) ==
    {j \in 1..Len(log) : log[j].z = z /\ log[j].t \in {"clear", "clearBg"}}

BrushesOf(z) == {j \in 1..Len(log) : log[j].z = z /\ log[j].t = "brush"}

\* The first brush of layer z is that of its start index, and the element
\* there does not ask to be painted without a clear.
StartsWithClear(z) ==
    /\ BrushesOf(z) # {}
    /\ log[Min(BrushesOf(z))].i = layers[z].startIndex
    /\ \/ lastOp.paintAll
       \/ ~list[layers[z].startIndex + 1].incremental
       \/ ~list[layers[z].startIndex + 1].notClear

\* C18: a painted layer is cleared, before its brushes, exactly when its
\* range is empty or the paint starts at __startIndex with a first element
\* that is not an incremental notClear element (a forced repaint always
\* clears); the clear gets the background colour only on the layer of the
\* first key of _zlevelList, and always there when getLayer made the layer.
C18_ClearRule ==
    \A z \in Scheduled :
        /\ ClearsOf(z) # {}
              <=> (layers[z].startIndex = layers[z].endIndex \/ StartsWithClear(z))
        /\ Cardinality(ClearsOf(z)) <= 1
        /\ \A c \in ClearsOf(z) :
              /\ \A b \in BrushesOf(z) : c < b
              /\ log[c].t = "clearBg" => z = zlevelList[1]
              /\ (z = zlevelList[1] /\ layers[z].zlevel = z)
                    => log[c].t = "clearBg"

C18_Witness ==
    \E z \in Scheduled :
        /\ ClearsOf(z) = {}
        /\ BrushesOf(z) # {}
        /\ log[Min(BrushesOf(z))].i = layers[z].startIndex
        /\ \E y \in Scheduled : \E c \in ClearsOf(y) : log[c].t = "clear"

\* ---------------------------------------------------------- compositor
\* The virtual engine-built layers in ascending key order.
VirtualKeys == SelectSeq(zlevelList, LAMBDA z : layers[z].builtin /\ layers[z].virtual)

PositionsOf(t) == {j \in 1..Len(log) : log[j].t = t}

\* C19: with manual compositing active, every paint pass that ran, finished
\* or not, is followed in the same call by one compositing step: the
\* physical surface is cleared and every virtual engine-built layer is
\* drawn onto it in ascending key order, after the last clear and brush of
\* the pass and before the continuation is asked for; compositing changes
\* no field of any layer.
C19_CompositeAfterPass ==
    (Classified /\ needsManuallyCompositing) =>
        /\ Cardinality(PositionsOf("cclear")) = 1
        /\ \A c \in PositionsOf("cclear") :
              /\ log[c].z = CANVAS_ZLEVEL
              /\ \A j \in 1..Len(log) :
                    log[j].t \in {"clear", "clearBg", "brush"} => j < c
              /\ PositionsOf("blit") = (c + 1)..(c + Len(VirtualKeys))
              /\ \A k \in 1..Len(VirtualKeys) : log[c + k].z = VirtualKeys[k]
              /\ \A j \in PositionsOf("raf") : j > c + Len(VirtualKeys)
        /\ _compositeManually(P).p.ly = layers

C19_Witness ==
    /\ Classified /\ needsManuallyCompositing
    /\ PositionsOf("raf") # {}
    /\ Cardinality(PositionsOf("blit")) >= 2
    /\ PositionsOf("brush") # {}

\* ------------------------------------------------------ layer of an element
RECURSIVE AssignedFrom(_, _, _, _, _)
\* The layers of the elements from index i + 1 on, after the iteration that
\* returned r for index i.
AssignedOn(r, l, i) ==
    <<r.prevLayer>>
    \o AssignedFrom(r.p, l, i + 1, r.prevLayer, r.incrementalLayerCount)

AssignedFrom(p, l, i, prevLayer, incrementalLayerCount) ==
    IF i >= Len(l) THEN <<>>
    ELSE AssignedOn(WalkStep(p, l, i, prevLayer, incrementalLayerCount), l, i)

\* The key of the layer that the walk of _updateLayerStatus(l) on the
\* registry p finds for each element, in l order.
AssignedKeys(p, l) ==
    AssignedFrom(DetectCompositing(ResetFlags(p), l), l, 0, NoLayer, 0)

\* The key by the rule: zlevel + 0.001 for an incremental element, zlevel +
\* 0.01 for a non-incremental one with an incremental element before it in
\* the list, zlevel otherwise.
RuleKey(m, j) ==
    m[j].zlevel * ZScale
    + (IF m[j].incremental THEN INCREMENTAL_INC
       ELSE IF \E k \in 1..(j - 1) : m[k].incremental
            THEN EL_AFTER_INCREMENTAL_INC ELSE 0)

\* C20: the walk assigns each element to the layer whose key is given by
\* the rule.
C20_KeyByRule ==
    \A m \in Mutations(list) :
        AssignedKeys(P, m) = [j \in 1..Len(m) |-> RuleKey(m, j)]

\* C20 as amended: the walk asks getLayer for the key given by the rule;
\* the element is assigned to the layer of that key, except on a single
\* canvas while manual compositing is off, where getLayer returns the
\* CANVAS_ZLEVEL layer for every key.
C20_KeyByRuleOrCanvas ==
    \A m \in Mutations(list) :
        AssignedKeys(P, m) =
            [j \in 1..Len(m) |->
                IF singleCanvas /\ ~DetectCompositing(P, m).comp
                THEN CANVAS_ZLEVEL ELSE RuleKey(m, j)]

C20_Witness ==
    /\ Classified /\ ~singleCanvas
    /\ \E j \in 2..Len(list) :
          /\ ~list[j].incremental /\ list[1].incremental
          /\ AssignedKeys(P, list)[j] = list[j].zlevel * ZScale + EL_AFTER_INCREMENTAL_INC
          /\ InRange(list[j].zlevel * ZScale + EL_AFTER_INCREMENTAL_INC, j - 1)

\* ------------------------------------------------ draw index by the rule
\* The indices of the dirty elements of the list m in the range of layer.
DirtyIndices(layer, m) ==
    {i \in 0..(Len(m) - 1) :
        layer.startIndex <= i /\ i < layer.endIndex /\ m[i + 1].dirty}

\* Where the paint of a dirty layer is to start: the start index, or for an
\* incremental layer the first dirty element of its range when it has one.
RuleDrawIndex(layer, m) ==
    IF layer.incremental /\ DirtyIndices(layer, m) # {}
    THEN Min(DirtyIndices(layer, m))
    ELSE layer.startIndex

\* Every dirty engine-built layer of the registry q, classified for the
\* list m, has the draw index of the rule.
DrawIndexByRule(q, m) ==
    \A z \in DOMAIN q.ly :
        (q.ly[z].builtin /\ q.ly[z].dirty)
            => q.ly[z].drawIndex = RuleDrawIndex(q.ly[z], m)

\* C21: after a classification a dirty non-incremental layer has
\* __drawIndex = __startIndex, and a dirty incremental layer has __drawIndex
\* at the first dirty element of its range, or at __startIndex when no
\* element of its range is dirty.
C21_DrawIndexByRule ==
    \A m \in Mutations(list) : DrawIndexByRule(_updateLayerStatus(P, m), m)

\* The classification of a list the storage hands over next leaves a dirty
\* incremental layer that starts at a dirty element behind a clean one, and
\* a dirty non-incremental layer.
DrawIndexCases(q, m) ==
    /\ \E z \in DOMAIN q.ly :
          /\ q.ly[z].builtin /\ q.ly[z].dirty /\ q.ly[z].incremental
          /\ q.ly[z].startIndex < q.ly[z].drawIndex
          /\ q.ly[z].drawIndex < q.ly[z].endIndex
    /\ \E z \in DOMAIN q.ly :
          /\ q.ly[z].builtin /\ q.ly[z].dirty /\ ~q.ly[z].incremental
          /\ q.ly[z].startIndex < q.ly[z].endIndex

C21_Witness ==
    /\ Classified
    /\ \E m \in Mutations(list) :
          /\ DrawIndexCases(_updateLayerStatus(P, m), m)
          /\ DrawIndexByRule(_updateLayerStatus(P, m), m)

\* ------------------------------------------------- hover layer apart
\* The engine-built layers that the last classification gave elements of
\* the display list.
MainLayers ==
    {z \in Builtin : layers[z].used /\ getElementCount(layers[z]) > 0}

AskedFrame == PositionsOf("raf") # {}

\* The layers whose timed loop was left by the break of line 452.
CutShort == {z \in TimedPainted : layers[z].drawIndex < layers[z].endIndex}

\* The last call cleared layer z once and then brushed each index of its
\* range once, in order, up to its end index.
PaintedWhole(z) ==
    /\ Cardinality(ClearsOf(z)) = 1
    /\ \A c \in ClearsOf(z) : \A b \in BrushesOf(z) : c < b
    /\ Cardinality(BrushesOf(z)) = layers[z].endIndex - layers[z].startIndex
    /\ \A b \in BrushesOf(z) :
          log[b].i = layers[z].startIndex + Cardinality({a \in BrushesOf(z) : a < b})
    /\ layers[z].drawIndex = layers[z].endIndex

\* C23: a paint pass asks for a continuation only when paintAll is false
\* and the timed loop of a dirty incremental layer was cut short; a pass
\* with paintAll true, or one that selects no incremental layer, clears
\* and brushes every selected layer from its start index to its end index
\* in the one frame and asks for nothing.
C23_ContinuationOnlyWhenCut ==
    Classified =>
        /\ AskedFrame => (~lastOp.paintAll /\ CutShort # {})
        /\ (lastOp.paintAll \/ \A z \in Scheduled : ~layers[z].incremental)
              => /\ ~AskedFrame
                 /\ \A j \in 1..Len(pending) : pending[j].id # redrawId
                 /\ \A z \in Scheduled : PaintedWhole(z)

C23_Witness ==
    /\ Classified /\ ~lastOp.paintAll /\ AskedFrame
    /\ \E j \in 1..Len(pending) : pending[j].id = redrawId
    /\ \E z \in CutShort :
          /\ BrushesOf(z) # {}
          /\ layers[z].drawIndex + 1 < layers[z].endIndex
    /\ \E z \in Scheduled :
          /\ ~layers[z].incremental /\ PaintedWhole(z) /\ BrushesOf(z) # {}

\* ------------------------------------------------- sentinel at paint time
\* The registry after the walk of _updateLayerStatus(m), before the sweep.
Walked(p, m) == Walk(DetectCompositing(ResetFlags(p), m), m, 0, NoLayer, 0)

\* No layer that _doPaintList selects in the classified registry q starts
\* from the sentinel, with paintAll or without: line 437 is false for each.
NoSentinelStart(q) ==
    \A z \in DOMAIN q.ly : \A paintAll \in BOOLEAN :
        (q.ly[z].builtin /\ z # q.hover /\ (q.ly[z].dirty \/ paintAll))
            => /\ StartIndex(q.ly[z], paintAll) >= 0
               /\ LoopStart(q.ly[z], paintAll) = StartIndex(q.ly[z], paintAll)

\* C24: after a classification the start index that the scheduler computes
\* for a selected engine-built layer (dirty, or any with paintAll) is never
\* the sentinel -1: the recovery branch of lines 437-440 is not taken.
C24_NoSentinelAtPaint ==
    \A m \in Mutations(list) : NoSentinelStart(_updateLayerStatus(P, m))

\* The walk of m left the sentinel on a dirty incremental layer of the
\* registry w, and _doPaintList selects the layer in the swept registry q
\* and starts it from its start index.
SentinelSwept(w, q) ==
    \E j \in 1..Len(layerList(q, FALSE)) :
        /\ w.ly[layerList(q, FALSE)[j]].dirty
        /\ w.ly[layerList(q, FALSE)[j]].incremental
        /\ w.ly[layerList(q, FALSE)[j]].drawIndex = -1
        /\ StartIndex(q.ly[layerList(q, FALSE)[j]], FALSE)
              = q.ly[layerList(q, FALSE)[j]].startIndex
        /\ q.ly[layerList(q, FALSE)[j]].startIndex
              < q.ly[layerList(q, FALSE)[j]].endIndex

C24_Witness ==
    /\ Classified
    /\ \E m \in Mutations(list) :
          SentinelSwept(Walked(P, m), _updateLayerStatus(P, m))

\* ------------------------------------------------------ one live pass
\* The pending frame callbacks that carry the current token.
LiveCallbacks == {j \in 1..Len(pending) : pending[j].id = redrawId}

\* The pending frame callbacks that _paintList would not turn away if they
\* ran now.
PaintingCallbacks ==
    {j \in 1..Len(pending) :
        _paintList(P, list, pending[j].paintAll, pending[j].id, redrawId,
                   [z \in IncKeys |-> 1]).ran}

\* C25: at most one pending frame callback carries the current _redrawId,
\* and at most one would go on to paint: of the continuations of one
\* refresh or of several, a single time-sliced pass is live.
C25_OneLivePass ==
    /\ Cardinality(LiveCallbacks) <= 1
    /\ Cardinality(PaintingCallbacks) <= 1
    /\ PaintingCallbacks = LiveCallbacks

C25_Witness ==
    /\ Len(pending) >= 2
    /\ Cardinality(PaintingCallbacks) = 1
    /\ \E j \in 1..Len(pending) : pending[j].id # redrawId
    /\ lastOp.op = "refresh" /\ AskedFrame

\* ------------------------------------------------- list and map agree
\* The keys listed in _zlevelList.
ListedKeys == {zlevelList[j] : j \in 1..Len(zlevelList)}

\* The layers that eachLayer, eachBuiltinLayer and eachOtherLayer hand to
\* their callback are all there: each listed key has a layer.
NoMissingLayer == \A j \in 1..Len(zlevelList) : zlevelList[j] \in DOMAIN layers

\* C26: the keys of _zlevelList are the keys of _layers, each listed once;
\* the iteration helpers visit no missing layer.
C26_ListMatchesMap ==
    /\ ListedKeys = DOMAIN layers
    /\ Len(zlevelList) = Cardinality(DOMAIN layers)
    /\ NoMissingLayer

C26_Witness ==
    /\ lastOp.op = "delLayer" /\ lastOp.ran
    /\ lastOp.z \notin ListedKeys
    /\ Len(zlevelList) >= 2
    /\ ListedKeys = DOMAIN layers

====
